---- MODULE Spec2Model ----
(***************************************************************************)
(* A state-machine model of src/script.js: the step navigation controller  *)
(* (currentStep and its derived views), the load-time wiring of listeners, *)
(* the interactive network diagram of step 2 with its hover cue, and the   *)
(* scoring of the two checklists.                                          *)
(*                                                                         *)
(* The document (markup) the script runs against is not part of script.js; *)
(* it is modelled as the variable doc, fixed at Init, that says which of   *)
(* the elements the script looks up exist.                                 *)
(***************************************************************************)
EXTENDS Integers, Sequences, FiniteSets, TLC

(***************************************************************************)
(* Bounds of the model.                                                    *)
(***************************************************************************)
\* showStep is called with the integers 0..MaxArg, the half-integers
\* 0.5 .. MaxArg-0.5 and NaN; digit keys "0".."MaxArg" are pressed.
MaxArg == 7
\* Layouts 0..MaxLayout: a resize moves the page to any of them.
MaxLayout == 1
\* A draw is started only while fewer than MaxPending highlight sequences run.
MaxPending == 2
\* Degraded documents lack at most MaxMissing of the elements looked up.
MaxMissing == 1
\* The pointer is moved over the first MaxHover node elements of the document.
MaxHover == 2
\* A scored checklist has at most MaxItems checkboxes, while the other one
\* has at most MaxFew.
MaxItems == 40
MaxFew == 1

(***************************************************************************)
(* Program constants.                                                      *)
(***************************************************************************)
totalSteps == 6
\* the setTimeout delays of drawConnectionsForNode, in milliseconds
HighlightStagger == 200
HighlightHold == 1000
Steps == 1..totalSteps

(***************************************************************************)
(* JavaScript numbers as far as the script distinguishes them: an integer  *)
(* n, a non-integer n + 0.5, or NaN.  Comparisons with NaN are false.      *)
(***************************************************************************)
Int_(n) == [k |-> "int", n |-> n]
Half(n) == [k |-> "half", n |-> n]
NaN == [k |-> "nan", n |-> 0]
\* The text a markup-supplied label carries before the script writes it.
Blank == [k |-> "blank", n |-> 0]

IsInteger(v) == v.k = "int"
\* v < c, v > c, v >= c, v <= c, v === c for an integer c
JsLt(v, c) == (v.k = "int" /\ v.n < c) \/ (v.k = "half" /\ v.n < c)
JsGt(v, c) == (v.k = "int" /\ v.n > c) \/ (v.k = "half" /\ v.n >= c)
JsGe(v, c) == (v.k = "int" /\ v.n >= c) \/ (v.k = "half" /\ v.n >= c)
JsLe(v, c) == (v.k = "int" /\ v.n <= c) \/ (v.k = "half" /\ v.n < c)
JsStrictEq(v, c) == v.k = "int" /\ v.n = c
\* v + d for an integer d
JsPlus(v, d) == IF v.k \in {"int", "half"} THEN [v EXCEPT !.n = v.n + d] ELSE NaN

ArgValues ==
    {Int_(n) : n \in 0..MaxArg} \cup {Half(n) : n \in 0..(MaxArg - 1)} \cup {NaN}

(***************************************************************************)
(* Keys.  parseInt(event.key) is the digit's value for a digit key and NaN *)
(* for every other key value ("a", "F1", "Enter", ...).                    *)
(***************************************************************************)
DigitKeys == <<"0", "1", "2", "3", "4", "5", "6", "7", "8", "9">>
OtherKeys == {"a", "F1", "Enter"}
NamedKeys == {"ArrowLeft", "ArrowRight", "Home", "End"}
KeyDigits == {d \in 1..Len(DigitKeys) : d - 1 <= MaxArg}
Keys == NamedKeys \cup OtherKeys \cup {DigitKeys[d] : d \in KeyDigits}

parseInt(key) ==
    IF \E d \in 1..Len(DigitKeys) : DigitKeys[d] = key
    THEN Int_((CHOOSE d \in 1..Len(DigitKeys) : DigitKeys[d] = key) - 1)
    ELSE NaN

(***************************************************************************)
(* The connection table of initializeStep2Interactions.                    *)
(***************************************************************************)
NodeIds == <<"leadership", "culture", "processes", "people", "results", "customers">>
TableNodes == {NodeIds[i] : i \in 1..Len(NodeIds)}
\* A .network-node element whose data-node is not a key of the table.
UnknownNode == "unknown"

Conn(t, s) == [target |-> t, strength |-> s]

connectionData(nodeType) ==
    CASE nodeType = "leadership" ->
           [title |-> "Leadership Connections",
            connections |-> <<Conn("culture", "strong"), Conn("processes", "strong"),
                              Conn("people", "medium"), Conn("results", "weak")>>]
      [] nodeType = "culture" ->
           [title |-> "Culture Connections",
            connections |-> <<Conn("people", "strong"), Conn("processes", "medium"),
                              Conn("customers", "medium"), Conn("leadership", "medium")>>]
      [] nodeType = "processes" ->
           [title |-> "Process Connections",
            connections |-> <<Conn("results", "strong"), Conn("people", "medium"),
                              Conn("customers", "strong"), Conn("culture", "weak")>>]
      [] nodeType = "people" ->
           [title |-> "People Connections",
            connections |-> <<Conn("results", "strong"), Conn("customers", "strong"),
                              Conn("culture", "medium"), Conn("processes", "medium")>>]
      [] nodeType = "results" ->
           [title |-> "Results Connections",
            connections |-> <<Conn("leadership", "medium"), Conn("customers", "strong"),
                              Conn("people", "weak"), Conn("processes", "weak")>>]
      [] nodeType = "customers" ->
           [title |-> "Customer Connections",
            connections |-> <<Conn("results", "strong"), Conn("leadership", "weak"),
                              Conn("processes", "medium"), Conn("people", "medium")>>]

\* connectionData[nodeType] is undefined for any other key
HasData(nodeType) == nodeType \in TableNodes

\* conn.target.charAt(0).toUpperCase() + conn.target.slice(1)
Capitalize(s) ==
    CASE s = "leadership" -> "Leadership"
      [] s = "culture" -> "Culture"
      [] s = "processes" -> "Processes"
      [] s = "people" -> "People"
      [] s = "results" -> "Results"
      [] s = "customers" -> "Customers"
      [] OTHER -> s

(***************************************************************************)
(* Documents.                                                              *)
(***************************************************************************)
\* The render surface of the specification: six menu entries, the panels
\* step-1..step-6, the progress label, both controls, the content area,
\* the six diagram nodes, their container, the drawing surface and the
\* detail panel.
CompleteDocument ==
    [menu |-> Steps, panels |-> Steps, label |-> TRUE, prevBtn |-> TRUE,
     nextBtn |-> TRUE, contentArea |-> TRUE, nodes |-> TableNodes,
     visual |-> TRUE, svg |-> TRUE, details |-> TRUE]

NominalDocuments == {CompleteDocument}

B2N(b) == IF b THEN 0 ELSE 1

NavMissing(d) ==
    Cardinality(Steps \ d.menu) + Cardinality(Steps \ d.panels) + B2N(d.label)
    + B2N(d.prevBtn) + B2N(d.nextBtn) + B2N(d.contentArea)

\* the deviations of the diagram's markup: elements that are missing, and a
\* node element whose data-node the table does not know
DiagramMissing(d) ==
    Cardinality(TableNodes \ d.nodes) + Cardinality(d.nodes \ TableNodes)
    + B2N(d.visual) + B2N(d.svg) + B2N(d.details)

AtMost(S, k) == {T \in SUBSET S : Cardinality(S \ T) <= k}

\* Documents that lack at most MaxMissing of the navigation elements.
NavDegradedDocuments ==
    {d \in [menu : AtMost(Steps, MaxMissing), panels : AtMost(Steps, MaxMissing),
            label : BOOLEAN, prevBtn : BOOLEAN, nextBtn : BOOLEAN,
            contentArea : BOOLEAN, nodes : {TableNodes}, visual : {TRUE},
            svg : {TRUE}, details : {TRUE}] : NavMissing(d) <= MaxMissing}

\* Documents whose diagram markup deviates in at most MaxMissing places.
DiagramDegradedDocuments ==
    {d \in [menu : {Steps}, panels : {Steps}, label : {TRUE}, prevBtn : {TRUE},
            nextBtn : {TRUE}, contentArea : {TRUE},
            nodes : AtMost(TableNodes \cup {UnknownNode}, MaxMissing + 1),
            visual : BOOLEAN,
            svg : BOOLEAN, details : BOOLEAN] : DiagramMissing(d) <= MaxMissing}

\* The two scored checklists: .assessment-checklist with #assessment-score
\* and .mapping-assessment with #mapping-assessment-score.
Checklists == {"assessment", "mapping"}

\* a page whose two checklists have MaxItems checkboxes each
NominalChecklists == {[g \in Checklists |-> MaxItems]}

\* Pages with at most MaxItems checkboxes in one checklist and at most
\* MaxFew in the other.
ScoredChecklists ==
    {t \in [Checklists -> 0..MaxItems] : \E g \in Checklists : t[g] <= MaxFew}

\* the score element as the markup delivers it: no text
NoMessage == [tier |-> "", percentage |-> Blank, tail |-> ""]

(***************************************************************************)
(* State.                                                                  *)
(***************************************************************************)
VARIABLES
    pc,             \* "start", "loaded1" (first DOMContentLoaded listener ran), "ready"
    doc,            \* the document: which elements exist (never changes)
    errors,         \* the source lines at which an uncaught TypeError was thrown
    listeners,      \* per event target, the listeners added, in order
    currentStep,    \* let currentStep
    menuActive,     \* menu entries carrying class "active"
    panelActive,    \* content panels carrying class "active"
    progressText,   \* textContent of .current-step
    prevDisplay,    \* prevBtn.style.display
    nextDisplay,    \* nextBtn.style.display
    scrollTop,      \* .content-area scrollTop (0: at the top, 1: scrolled)
    activeNodes,    \* diagram nodes carrying class "active"
    details,        \* what #connection-details shows
    svgLines,       \* the .connection-line children of #connection-svg, in order
    anim,           \* running highlight sequences, oldest first: draw, lines, callbacks fired
    highlighted,    \* lines (attached or removed) carrying class "highlighted"
    seedTimer,      \* the 100 ms timer of initializeStep2Interactions
    layout,         \* the current page layout
    hovered,        \* the node element under the pointer ("": none)
    transform,      \* node elements whose style.transform is 'scale(1.05)'
    totalItems,     \* per checklist, the checkboxes in the document (never changes)
    checkedItems,   \* per checklist, the checkboxes that are checked
    scoreText,      \* per checklist, the textContent of its score element
    lastClicked,    \* history: the node element clicked last ("": none yet)
    lastEvent       \* history: the event or call handled last

navVars == <<currentStep, menuActive, panelActive, progressText, prevDisplay,
             nextDisplay, scrollTop>>
diagramVars == <<activeNodes, details, svgLines, anim, highlighted, seedTimer, layout>>
hoverVars == <<hovered, transform>>
scoreVars == <<totalItems, checkedItems, scoreText>>
vars == <<pc, doc, errors, listeners, navVars, diagramVars, hoverVars, scoreVars,
          lastClicked, lastEvent>>

Event(type, val, key, idx) == [type |-> type, val |-> val, key |-> key, idx |-> idx]

(***************************************************************************)
(* Listeners.  A listener is identified by its callback: a closure created *)
(* by the reg-th run of the function that adds it is a new callback each   *)
(* time, a named function is the same callback every time.                 *)
(***************************************************************************)
Closure(fn, idx, reg) == [fn |-> fn, idx |-> idx, reg |-> reg]
Named(fn) == [fn |-> fn, idx |-> 0, reg |-> 0]

Range(s) == {s[i] : i \in 1..Len(s)}

\* mutant: every call adds a listener, the same callback or not
addEventListenerAlways(list, callback) == Append(list, callback)

\* target.addEventListener(type, callback): a callback already in the
\* target's list for that type is not added again.
addEventListener(list, callback) ==
    IF callback \in Range(list) THEN list ELSE Append(list, callback)

\* the click, mouseenter and mouseleave listeners of a node element are kept
\* per node, the change listeners of a checklist's checkboxes per checklist
\* (every checkbox of a checklist is given the same listeners)
NoListeners ==
    [menu |-> [i \in Steps |-> <<>>], prev |-> <<>>, next |-> <<>>,
     keydown |-> <<>>, node |-> [n \in TableNodes \cup {UnknownNode} |-> <<>>],
     resize |-> <<>>,
     mouseenter |-> [n \in TableNodes \cup {UnknownNode} |-> <<>>],
     mouseleave |-> [n \in TableNodes \cup {UnknownNode} |-> <<>>],
     change |-> [g \in Checklists |-> <<>>]]

(***************************************************************************)
(* The elements initializeNavigation looks up.                             *)
(***************************************************************************)
RECURSIVE SortedSeq(_)
SortedSeq(S) ==
    IF S = {} THEN <<>>
    ELSE LET m == CHOOSE x \in S : \A y \in S : x <= y
         IN <<m>> \o SortedSeq(S \ {m})

\* document.querySelectorAll('.step-menu-item'): the entries in document order
stepMenuItems == SortedSeq(doc.menu)
\* document.querySelectorAll('.step-content')
stepContents == doc.panels

(***************************************************************************)
(* The step controller, as functions of the navigation state nav.          *)
(***************************************************************************)
Nav ==
    [currentStep |-> currentStep, menuActive |-> menuActive,
     panelActive |-> panelActive, progressText |-> progressText,
     prevDisplay |-> prevDisplay, nextDisplay |-> nextDisplay,
     scrollTop |-> scrollTop]

\* mutant: the entry is toggled, no entry is cleared
updateMenuActiveStateToggle(nav, stepNumber) ==
    LET hit == IF IsInteger(stepNumber) /\ stepNumber.n \in 1..Len(stepMenuItems)
               THEN {stepMenuItems[stepNumber.n]} ELSE {}
    IN [nav EXCEPT !.menuActive = (@ \ hit) \cup (hit \ @)]

updateMenuActiveState(nav, stepNumber) ==
    LET cleared == nav.menuActive \ Range(stepMenuItems)
        hit == IF IsInteger(stepNumber) /\ stepNumber.n \in 1..Len(stepMenuItems)
               THEN {stepMenuItems[stepNumber.n]} ELSE {}
    IN [nav EXCEPT !.menuActive = cleared \cup hit]

\* mutant: the panels shown before are not hidden
updateContentVisibilityKeep(nav, stepNumber) ==
    [nav EXCEPT !.panelActive =
        @ \cup (IF IsInteger(stepNumber) /\ stepNumber.n \in doc.panels
                THEN {stepNumber.n} ELSE {})]

updateContentVisibility(nav, stepNumber) ==
    LET cleared == nav.panelActive \ stepContents
        \* document.getElementById(`step-${stepNumber}`)
        targetContent == IF IsInteger(stepNumber) /\ stepNumber.n \in doc.panels
                         THEN {stepNumber.n} ELSE {}
    IN [nav EXCEPT !.panelActive = cleared \cup targetContent]

updateProgressIndicator(nav, stepNumber) ==
    IF doc.label THEN [nav EXCEPT !.progressText = stepNumber] ELSE nav

updateNavigationButtons(nav, stepNumber) ==
    LET a == IF doc.prevBtn
             THEN [nav EXCEPT !.prevDisplay =
                       IF JsStrictEq(stepNumber, 1) THEN "none" ELSE "flex"]
             ELSE nav
    IN IF doc.nextBtn
       THEN [a EXCEPT !.nextDisplay =
                 IF JsStrictEq(stepNumber, totalSteps) THEN "none" ELSE "flex"]
       ELSE a

scrollToTop(nav) ==
    IF doc.contentArea THEN [nav EXCEPT !.scrollTop = 0] ELSE nav

\* mutant: the upper limit is off by one
InvalidStepOffByOne(stepNumber) ==
    JsLt(stepNumber, 1) \/ JsGt(stepNumber, totalSteps + 1)

\* the validation of showStep: true when the step number is rejected
InvalidStep(stepNumber) == JsLt(stepNumber, 1) \/ JsGt(stepNumber, totalSteps)

showStep(nav, stepNumber) ==
    IF InvalidStep(stepNumber)
    THEN nav
    ELSE scrollToTop(
           updateNavigationButtons(
             updateProgressIndicator(
               updateContentVisibility(
                 updateMenuActiveState([nav EXCEPT !.currentStep = stepNumber],
                                       stepNumber),
                 stepNumber),
               stepNumber),
             stepNumber))

nextStep(nav) ==
    IF JsLt(nav.currentStep, totalSteps)
    THEN showStep(nav, JsPlus(nav.currentStep, 1))
    ELSE nav

previousStep(nav) ==
    IF JsGt(nav.currentStep, 1)
    THEN showStep(nav, JsPlus(nav.currentStep, -1))
    ELSE nav

getCurrentStep(nav) == nav.currentStep
hasNextStep(nav) == JsLt(nav.currentStep, totalSteps)
hasPreviousStep(nav) == JsGt(nav.currentStep, 1)

handleKeyboardNavigation(nav, key) ==
    CASE key = "ArrowLeft" ->
           IF JsGt(nav.currentStep, 1)
           THEN showStep(nav, JsPlus(nav.currentStep, -1)) ELSE nav
      [] key = "ArrowRight" ->
           IF JsLt(nav.currentStep, totalSteps)
           THEN showStep(nav, JsPlus(nav.currentStep, 1)) ELSE nav
      [] key = "Home" -> showStep(nav, Int_(1))
      [] key = "End" -> showStep(nav, Int_(totalSteps))
      [] OTHER ->
           LET numberKey == parseInt(key)
           IN IF JsGe(numberKey, 1) /\ JsLe(numberKey, totalSteps)
              THEN showStep(nav, numberKey) ELSE nav

\* the click listeners setupEventListeners adds
menuClick(nav, index) == showStep(nav, Int_(index + 1))

prevClick(nav) ==
    IF JsGt(nav.currentStep, 1)
    THEN showStep(nav, JsPlus(nav.currentStep, -1)) ELSE nav

nextClick(nav) ==
    IF JsLt(nav.currentStep, totalSteps)
    THEN showStep(nav, JsPlus(nav.currentStep, 1)) ELSE nav

\* one listener of a navigation event, run on nav
RunListener(nav, callback, key) ==
    CASE callback.fn = "menuClick" -> menuClick(nav, callback.idx)
      [] callback.fn = "prevClick" -> prevClick(nav)
      [] callback.fn = "nextClick" -> nextClick(nav)
      [] callback.fn = "handleKeyboardNavigation" -> handleKeyboardNavigation(nav, key)
      [] OTHER -> nav

\* dispatch of one event: every listener of the target runs, in the order added
RECURSIVE Dispatch(_, _, _)
Dispatch(nav, list, key) ==
    IF list = <<>> THEN nav
    ELSE Dispatch(RunListener(nav, Head(list), key), Tail(list), key)

SetNav(nav) ==
    /\ currentStep' = nav.currentStep
    /\ menuActive' = nav.menuActive
    /\ panelActive' = nav.panelActive
    /\ progressText' = nav.progressText
    /\ prevDisplay' = nav.prevDisplay
    /\ nextDisplay' = nav.nextDisplay
    /\ scrollTop' = nav.scrollTop

(***************************************************************************)
(* setupEventListeners and initializeNavigation.  A run is the pair        *)
(* [l |-> listeners, nav |-> navigation state, err |-> lines that threw].  *)
(***************************************************************************)
RECURSIVE AddMenuListeners(_, _, _)
\* stepMenuItems.forEach((item, index) => item.addEventListener('click', ...))
AddMenuListeners(l, index, reg) ==
    IF index >= Len(stepMenuItems) THEN l
    ELSE AddMenuListeners(
           [l EXCEPT !.menu[stepMenuItems[index + 1]] =
                addEventListener(@, Closure("menuClick", index, reg))],
           index + 1, reg)

\* Returns the listeners and the line that threw (0: none).  prevBtn and
\* nextBtn are dereferenced without a check: on a missing control the
\* function throws a TypeError and adds nothing further.
setupEventListeners(l, reg) ==
    LET a == AddMenuListeners(l, 0, reg)
    IN IF ~doc.prevBtn THEN [l |-> a, threw |-> 47]
       ELSE LET b == [a EXCEPT !.prev = addEventListener(@, Closure("prevClick", 0, reg))]
            IN IF ~doc.nextBtn THEN [l |-> b, threw |-> 53]
               ELSE LET c == [b EXCEPT !.next =
                                  addEventListener(@, Closure("nextClick", 0, reg))]
                    IN [l |-> [c EXCEPT !.keydown =
                                 addEventListener(@, Named("handleKeyboardNavigation"))],
                        threw |-> 0]

initializeNavigation(l, nav, reg) ==
    LET s == setupEventListeners(l, reg)
    IN IF s.threw # 0
       THEN [l |-> s.l, nav |-> nav, threw |-> s.threw]
       ELSE [l |-> s.l, nav |-> showStep(nav, Int_(1)), threw |-> 0]

(***************************************************************************)
(* The diagram controller, as functions of the diagram state dg.           *)
(***************************************************************************)
Diagram ==
    [activeNodes |-> activeNodes, details |-> details, svgLines |-> svgLines,
     anim |-> anim, highlighted |-> highlighted, threw |-> {}]

\* a measured position: the centre of a node under a layout, or (0, 0)
Center(nodeType, lay) == [at |-> nodeType, layout |-> lay]
Origin == [at |-> "origin", layout |-> 0]

\* getNodeCenter: the fallback (0, 0) when the node element is missing; the
\* .network-visual container is dereferenced without a check.
getNodeCenter(nodeType, lay) ==
    IF nodeType \notin doc.nodes THEN [pos |-> Origin, threw |-> 0]
    ELSE IF ~doc.visual THEN [pos |-> Origin, threw |-> 483]
    ELSE [pos |-> Center(nodeType, lay), threw |-> 0]

\* The callbacks of one draw of n lines in the order their timers expire:
\* the highlight of line i is due i * 200 ms after the draw, its removal
\* 1000 ms after the highlight.
Due(cb) == cb.i * HighlightStagger + (IF cb.kind = "remove" THEN HighlightHold ELSE 0)
Earlier(a, b) ==
    \/ Due(a) < Due(b)
    \/ Due(a) = Due(b) /\ a.kind = "add" /\ b.kind = "remove"
    \/ Due(a) = Due(b) /\ a.kind = b.kind /\ a.i < b.i
RECURSIVE InDueOrder(_)
InDueOrder(S) ==
    IF S = {} THEN <<>>
    ELSE LET first == CHOOSE a \in S : \A b \in S \ {a} : Earlier(a, b)
         IN <<first>> \o InDueOrder(S \ {first})
\* the longest connection list of the table
MaxLines ==
    LET lens == {Len(connectionData(t).connections) : t \in TableNodes}
    IN CHOOSE m \in lens : \A l \in lens : l <= m
CallbackOrder ==
    [n \in 0..MaxLines |->
       InDueOrder({[kind |-> k, i |-> i] : k \in {"add", "remove"}, i \in 0..(n - 1)})]
\* mutant: the nested callback adds the class as the outer one does
CallbacksAddOnly(n) ==
    [p \in 1..Len(CallbackOrder[n]) |-> [CallbackOrder[n][p] EXCEPT !.kind = "add"]]

Callbacks(n) == CallbackOrder[n]

\* the identity of a draw: the least number no running sequence carries
FreshDraw(a) ==
    LET used == {a[k].id : k \in 1..Len(a)}
    IN CHOOSE b \in 1..(Len(a) + 1) : b \notin used

Line(draw, index, sourcePos, targetPos, strength) ==
    [draw |-> draw, index |-> index, from |-> sourcePos, to |-> targetPos,
     strength |-> strength, marker |-> strength]

\* connections.forEach((conn, index) => ...): the lines appended until a
\* lookup throws
RECURSIVE DrawLines(_, _, _, _, _)
DrawLines(connections, index, draw, sourcePos, lay) ==
    IF index >= Len(connections) THEN [lines |-> <<>>, threw |-> 0]
    ELSE LET conn == connections[index + 1]
             targetPos == getNodeCenter(conn.target, lay)
         IN IF targetPos.threw # 0 THEN [lines |-> <<>>, threw |-> targetPos.threw]
            ELSE LET rest == DrawLines(connections, index + 1, draw, sourcePos, lay)
                 IN [lines |-> <<Line(draw, index, sourcePos, targetPos.pos,
                                      conn.strength)>> \o rest.lines,
                     threw |-> rest.threw]

\* mutant: the lines of the earlier draw stay on the surface
ClearLinesKeep(lines) == lines

\* existingLines.forEach(line => line.remove())
ClearLines(lines) == <<>>

drawConnectionsForNode(dg, nodeType, lay) ==
    IF ~doc.svg \/ ~HasData(nodeType) THEN dg
    ELSE LET sourcePos == getNodeCenter(nodeType, lay)
             draw == FreshDraw(dg.anim)
             cleared == [dg EXCEPT !.svgLines = ClearLines(@)]
         IN IF sourcePos.threw # 0
            THEN [cleared EXCEPT !.threw = @ \cup {sourcePos.threw}]
            ELSE LET r == DrawLines(connectionData(nodeType).connections, 0, draw,
                                    sourcePos.pos, lay)
                     n == Len(r.lines)
                 IN [cleared EXCEPT
                       !.svgLines = @ \o r.lines,
                       !.anim = IF n = 0 THEN @
                                ELSE Append(@, [id |-> draw, n |-> n, fired |-> 0]),
                       !.threw = IF r.threw # 0 THEN @ \cup {r.threw} ELSE @]

NoDetails == [title |-> "", items |-> <<>>]

\* connectionDetails.innerHTML: the title and one item per connection
DetailsOf(data) ==
    [title |-> data.title,
     items |-> [i \in 1..Len(data.connections) |->
                  [strength |-> data.connections[i].strength,
                   target |-> Capitalize(data.connections[i].target)]]]

\* mutant: the class of the nodes selected before is not removed
nodeClickKeep(dg, node, lay) ==
    LET marked == [dg EXCEPT !.activeNodes = @ \cup {node}]
        shown == IF HasData(node) /\ doc.details
                 THEN [marked EXCEPT !.details = DetailsOf(connectionData(node))]
                 ELSE marked
    IN drawConnectionsForNode(shown, node, lay)

\* the click listener of a node
nodeClick(dg, node, lay) ==
    LET marked == [dg EXCEPT !.activeNodes = (@ \ doc.nodes) \cup {node}]
        nodeType == node
        shown == IF HasData(nodeType) /\ doc.details
                 THEN [marked EXCEPT !.details = DetailsOf(connectionData(nodeType))]
                 ELSE marked
    IN drawConnectionsForNode(shown, nodeType, lay)

\* document.querySelector('.network-node.active'): the first in document order
FirstActive(active) ==
    LET idx == {i \in 1..Len(NodeIds) : NodeIds[i] \in active}
    IN IF idx # {} THEN NodeIds[CHOOSE i \in idx : \A j \in idx : i <= j]
       ELSE UnknownNode

\* mutant: a resize redraws the default node
resizeHandlerDefault(dg, lay) == drawConnectionsForNode(dg, "leadership", lay)

\* the resize listener
resizeHandler(dg, lay) ==
    IF dg.activeNodes # {}
    THEN drawConnectionsForNode(dg, FirstActive(dg.activeNodes), lay)
    ELSE dg

\* mutant: the default node is seeded by selecting it
initializeConnectionsSelect(dg, lay) ==
    IF ~doc.svg THEN dg ELSE nodeClick(dg, "leadership", lay)

\* mutant: the seeded draw resets the selection
initializeConnectionsReset(dg, lay) ==
    IF ~doc.svg THEN dg
    ELSE [drawConnectionsForNode(dg, "leadership", lay) EXCEPT !.activeNodes = {}]

\* initializeConnections, run by the 100 ms timer
initializeConnections(dg, lay) ==
    IF ~doc.svg THEN dg ELSE drawConnectionsForNode(dg, "leadership", lay)

RunDiagramListener(dg, callback, node, lay) ==
    CASE callback.fn = "nodeClick" -> nodeClick(dg, node, lay)
      [] callback.fn = "resize" -> resizeHandler(dg, lay)
      [] OTHER -> dg

RECURSIVE DispatchDiagram(_, _, _, _)
DispatchDiagram(dg, list, node, lay) ==
    IF list = <<>> THEN dg
    ELSE DispatchDiagram(RunDiagramListener(dg, Head(list), node, lay),
                         Tail(list), node, lay)

\* the mouseenter listener of a node: the scale cue, unless the node is active
mouseenter(scaled, active, node) ==
    IF node \notin active THEN scaled \cup {node} ELSE scaled

\* the mouseleave listener of a node: the cue is cleared, unless the node is
\* active
mouseleave(scaled, active, node) ==
    IF node \notin active THEN scaled \ {node} ELSE scaled

RunHoverListener(scaled, callback, active, node) ==
    CASE callback.fn = "mouseenter" -> mouseenter(scaled, active, node)
      [] callback.fn = "mouseleave" -> mouseleave(scaled, active, node)
      [] OTHER -> scaled

RECURSIVE DispatchHover(_, _, _, _)
DispatchHover(scaled, list, active, node) ==
    IF list = <<>> THEN scaled
    ELSE DispatchHover(RunHoverListener(scaled, Head(list), active, node),
                       Tail(list), active, node)

SetDiagram(dg) ==
    /\ activeNodes' = dg.activeNodes
    /\ details' = dg.details
    /\ svgLines' = dg.svgLines
    /\ anim' = dg.anim
    /\ highlighted' = dg.highlighted
    /\ errors' = errors \cup dg.threw

\* initializeStep2Interactions: the listeners it adds
RECURSIVE AddNodeListeners(_, _)
AddNodeListeners(l, nodes) ==
    IF nodes = {} THEN l
    ELSE LET n == CHOOSE x \in nodes : TRUE
         IN AddNodeListeners(
              [l EXCEPT !.node[n] = addEventListener(@, Closure("nodeClick", 0, 1)),
                        !.mouseenter[n] = addEventListener(@, Closure("mouseenter", 0, 1)),
                        !.mouseleave[n] = addEventListener(@, Closure("mouseleave", 0, 1))],
              nodes \ {n})

\* checkboxes.forEach(checkbox => checkbox.addEventListener('change', fn))
AddChangeListeners(l, g, fn) ==
    IF totalItems[g] = 0 THEN l
    ELSE [l EXCEPT !.change[g] = addEventListener(@, Named(fn))]

initializeStep2Interactions(l) ==
    AddChangeListeners(
      [AddNodeListeners(l, doc.nodes) EXCEPT
         !.resize = addEventListener(@, Closure("resize", 0, 1))],
      "mapping", "updateMappingAssessmentScore")

\* initializeStep1Interactions: the change listeners of the assessment
\* checklist (the listeners of the practice checklist and of the tooltips
\* write only the background and the title of their own element)
initializeStep1Interactions(l) ==
    AddChangeListeners(l, "assessment", "updateAssessmentScore")

(***************************************************************************)
(* Checklist scoring.  checkedItems / totalItems and the product with 100  *)
(* are Number operations: each result is the exact value rounded to the    *)
(* nearest double (53 significant bits, ties to even).  A positive double  *)
(* is [bits, frac]: the significand, most significant bit first, and the   *)
(* number of its bits that follow the binary point.                        *)
(***************************************************************************)
Precision == 53

\* the arithmetic below works on pieces of at most Limb binary digits
Limb == 13

RECURSIVE ToBits(_)
\* the binary digits of a natural number (none for 0)
ToBits(n) == IF n = 0 THEN <<>> ELSE Append(ToBits(n \div 2), n % 2)

\* the w rightmost binary digits of a natural number
ToBitsN(n, w) == [i \in 1..w |-> (n \div 2^(w - i)) % 2]

RECURSIVE ToNat(_)
\* the natural number of a digit sequence of at most Limb digits
ToNat(bits) ==
    IF bits = <<>> THEN 0
    ELSE 2 * ToNat(SubSeq(bits, 1, Len(bits) - 1)) + bits[Len(bits)]

RECURSIVE MulAddDigits(_, _, _)
\* bits * k + carry, piece by piece from the right: as many digits as bits
\* has, and the carry out of the leftmost one
MulAddDigits(bits, k, carry) ==
    IF Len(bits) <= Limb
    THEN LET v == ToNat(bits) * k + carry
         IN [bits |-> ToBitsN(v % 2^Len(bits), Len(bits)), carry |-> v \div 2^Len(bits)]
    ELSE LET cut == Len(bits) - Limb
             right == MulAddDigits(SubSeq(bits, cut + 1, Len(bits)), k, carry)
             left == MulAddDigits(SubSeq(bits, 1, cut), k, right.carry)
         IN [bits |-> left.bits \o right.bits, carry |-> left.carry]

\* the binary digits of bits * k + carry
MulAdd(bits, k, carry) ==
    LET r == MulAddDigits(bits, k, carry) IN ToBits(r.carry) \o r.bits

\* Round to nearest, ties to even: kept are the digits that fit, up says
\* that what was cut off is more than half a unit of the last digit, tie
\* that it is exactly half.  frac counts the kept fraction digits.
RoundToDouble(kept, frac, up, tie) ==
    IF up \/ (tie /\ kept[Len(kept)] = 1)
    THEN LET inc == MulAdd(kept, 1, 1)
         IN IF Len(inc) > Precision
            THEN [bits |-> SubSeq(inc, 1, Precision), frac |-> frac - 1]
            ELSE [bits |-> inc, frac |-> frac]
    ELSE [bits |-> kept, frac |-> frac]

RECURSIVE Expand(_, _, _)
\* the first n binary digits of r / t after the point (r < t), and the
\* remainder they leave
Expand(r, t, n) ==
    IF n <= Limb
    THEN [bits |-> ToBitsN((r * 2^n) \div t, n), rem |-> (r * 2^n) % t]
    ELSE LET first == Expand(r, t, Limb)
             rest == Expand(first.rem, t, n - Limb)
         IN [bits |-> first.bits \o rest.bits, rem |-> rest.rem]

RECURSIVE LeadingZeros(_, _)
\* the zero digits of r / t between the point and its first 1 (0 < r < t)
LeadingZeros(r, t) == IF 2 * r >= t THEN 0 ELSE 1 + LeadingZeros(2 * r, t)

RECURSIVE Shifted(_, _)
Shifted(r, z) == IF z = 0 THEN r ELSE Shifted(2 * r, z - 1)

\* the double 1
One == [bits |-> <<1>> \o [i \in 1..(Precision - 1) |-> 0], frac |-> Precision - 1]

\* c / t for 0 < c <= t
JsDivide(c, t) ==
    IF c = t THEN One
    ELSE LET z == LeadingZeros(c, t)
             e == Expand(Shifted(c, z), t, Precision)
         IN RoundToDouble(e.bits, z + Precision, 2 * e.rem > t, 2 * e.rem = t)

\* x * k for a double x and a natural number k >= 1
JsTimes(x, k) ==
    LET p == MulAdd(x.bits, k, 0)
        cut == Len(p) - Precision
        rest == SubSeq(p, Precision + 1, Len(p))
        half == <<1>> \o [i \in 1..(cut - 1) |-> 0]
    IN IF cut = 0 THEN [bits |-> p, frac |-> x.frac]
       ELSE RoundToDouble(SubSeq(p, 1, Precision), x.frac - cut,
                          rest[1] = 1 /\ rest # half, rest = half)

\* Math.round(x) for a double x below 2^Precision: the nearest integer,
\* the larger one of two that are equally near
MathRound(x) ==
    LET ints == Precision - x.frac
    IN IF ints < 0 THEN 0
       ELSE ToNat(SubSeq(x.bits, 1, ints)) + x.bits[ints + 1]

\* Math.round((checkedItems / totalItems) * 100); 0 / 0 is NaN
Percentage(checked, total) ==
    IF total = 0 THEN NaN
    ELSE IF checked = 0 THEN Int_(0)
    ELSE Int_(MathRound(JsTimes(JsDivide(checked, total), 100)))

\* the percentages of all checklists of at most MaxItems checkboxes
PercentageTable ==
    [total \in 0..MaxItems |-> [checked \in 0..total |-> Percentage(checked, total)]]

\* const percentage = Math.round((checkedItems / totalItems) * 100)
percentage(checked, total) == PercentageTable[total][checked]

\* what the messages of the two checklists end with
Tails(g) ==
    IF g = "assessment"
    THEN [perfect |-> "You've mastered system definition!",
          great |-> "You're on the right track!",
          good |-> "Keep refining your approach!",
          getting |-> "Review the key concepts above.",
          again |-> "Take time to go through the framework again."]
    ELSE [perfect |-> "You've mastered interconnection mapping!",
          great |-> "You're seeing the connections!",
          good |-> "Keep mapping those relationships!",
          getting |-> "Review the mapping framework above.",
          again |-> "Take time to practice the 5-step mapping process."]

Message(tier, p, tail) == [tier |-> tier, percentage |-> p, tail |-> tail]

\* the message of a percentage p
MessageOf(g, p) ==
    IF JsStrictEq(p, 100) THEN Message("Perfect!", p, Tails(g).perfect)
    ELSE IF JsGe(p, 80) THEN Message("Great work!", p, Tails(g).great)
    ELSE IF JsGe(p, 60) THEN Message("Good progress!", p, Tails(g).good)
    ELSE IF JsGe(p, 40) THEN Message("Getting there!", p, Tails(g).getting)
    ELSE Message("", p, Tails(g).again)

\* document.getElementById('assessment-score') and
\* document.getElementById('mapping-assessment-score'): both exist
ScoreElement(g) == g \in Checklists

\* mutant: the score is written whatever the number of checkboxes
updateScoreUnguarded(g, text, checked, total) ==
    IF ScoreElement(g)
    THEN [text EXCEPT ![g] = MessageOf(g, percentage(checked[g], total[g]))]
    ELSE text

\* updateAssessmentScore (g = "assessment") and updateMappingAssessmentScore
\* (g = "mapping"): the text of the score elements afterwards
updateScore(g, text, checked, total) ==
    IF ScoreElement(g) /\ total[g] > 0
    THEN [text EXCEPT ![g] = MessageOf(g, percentage(checked[g], total[g]))]
    ELSE text

updateAssessmentScore(text, checked, total) == updateScore("assessment", text, checked, total)
updateMappingAssessmentScore(text, checked, total) == updateScore("mapping", text, checked, total)

RunChangeListener(text, callback, checked, total) ==
    CASE callback.fn = "updateAssessmentScore" -> updateAssessmentScore(text, checked, total)
      [] callback.fn = "updateMappingAssessmentScore" ->
           updateMappingAssessmentScore(text, checked, total)
      [] OTHER -> text

RECURSIVE DispatchChange(_, _, _, _)
DispatchChange(text, list, checked, total) ==
    IF list = <<>> THEN text
    ELSE DispatchChange(RunChangeListener(text, Head(list), checked, total),
                        Tail(list), checked, total)

(***************************************************************************)
(* Initial states: the script has been evaluated, the document parsed, and *)
(* DOMContentLoaded not yet dispatched.  The markup either carries no      *)
(* active class or presents step 1.                                        *)
(***************************************************************************)
NoValue == Blank

InitWith(documents, checklists) ==
    /\ doc \in documents
    /\ pc = "start"
    /\ errors = {}
    /\ listeners = NoListeners
    /\ currentStep = Int_(1)
    /\ \E presented \in BOOLEAN :
         /\ menuActive = IF presented THEN {1} \cap doc.menu ELSE {}
         /\ panelActive = IF presented THEN {1} \cap doc.panels ELSE {}
         /\ progressText = IF presented /\ doc.label THEN Int_(1) ELSE Blank
    /\ prevDisplay = ""
    /\ nextDisplay = ""
    /\ scrollTop = 0
    /\ activeNodes = {}
    /\ details = NoDetails
    /\ svgLines = <<>>
    /\ anim = <<>>
    /\ highlighted = {}
    /\ seedTimer = "unset"
    /\ layout = 0
    /\ hovered = ""
    /\ transform = {}
    /\ totalItems \in checklists
    /\ checkedItems = [g \in Checklists |-> 0]
    /\ scoreText = [g \in Checklists |-> NoMessage]
    /\ lastClicked = ""
    /\ lastEvent = Event("script", NoValue, "", 0)

Init == InitWith(NominalDocuments, NominalChecklists)
InitNavDegraded == InitWith(NavDegradedDocuments, NominalChecklists)
InitScore == InitWith(NominalDocuments, ScoredChecklists)
InitDiagramDegraded == InitWith(DiagramDegradedDocuments, NominalChecklists)

(***************************************************************************)
(* Load: the two DOMContentLoaded listeners, run one after the other.      *)
(***************************************************************************)
\* document.addEventListener('DOMContentLoaded', ...) of lines 224-227
DOMContentLoaded1 ==
    /\ pc = "start"
    /\ LET r == initializeNavigation(listeners, Nav, 1)
       IN /\ listeners' = IF r.threw # 0 THEN r.l ELSE initializeStep1Interactions(r.l)
          /\ SetNav(r.nav)
          /\ errors' = IF r.threw # 0 THEN errors \cup {r.threw} ELSE errors
    /\ pc' = "loaded1"
    /\ lastEvent' = Event("DOMContentLoaded", NoValue, "", 1)
    /\ UNCHANGED <<doc, diagramVars, hoverVars, scoreVars, lastClicked>>

\* document.addEventListener('DOMContentLoaded', ...) of lines 601-605
DOMContentLoaded2 ==
    /\ pc = "loaded1"
    /\ LET r == initializeNavigation(listeners, Nav, 2)
       IN /\ SetNav(r.nav)
          /\ errors' = IF r.threw # 0 THEN errors \cup {r.threw} ELSE errors
          /\ listeners' = IF r.threw # 0 THEN r.l
                          ELSE initializeStep2Interactions(initializeStep1Interactions(r.l))
          /\ seedTimer' = IF r.threw # 0 THEN seedTimer ELSE "pending"
    /\ pc' = "ready"
    /\ lastEvent' = Event("DOMContentLoaded", NoValue, "", 2)
    /\ UNCHANGED <<doc, activeNodes, details, svgLines, anim, highlighted, layout,
                   hoverVars, scoreVars, lastClicked>>

(***************************************************************************)
(* Navigation: calls of the exported functions and input events.  They are *)
(* handled once load has run: input reaches only listeners that have been  *)
(* added, and the exported functions use the element variables that        *)
(* initializeNavigation assigns.                                           *)
(***************************************************************************)
\* window.SystemsThinking.showStep(v)
ApiShowStep(v) ==
    /\ pc = "ready"
    /\ SetNav(showStep(Nav, v))
    /\ lastEvent' = Event("showStep", v, IF v = getCurrentStep(Nav) THEN "current" ELSE "", 0)
    /\ UNCHANGED <<pc, doc, errors, listeners, diagramVars, hoverVars, scoreVars, lastClicked>>

\* window.SystemsThinking.nextStep()
ApiNextStep ==
    /\ pc = "ready"
    /\ SetNav(nextStep(Nav))
    /\ lastEvent' = Event("nextStep", currentStep, "", 0)
    /\ UNCHANGED <<pc, doc, errors, listeners, diagramVars, hoverVars, scoreVars, lastClicked>>

\* window.SystemsThinking.previousStep()
ApiPreviousStep ==
    /\ pc = "ready"
    /\ SetNav(previousStep(Nav))
    /\ lastEvent' = Event("previousStep", currentStep, "", 0)
    /\ UNCHANGED <<pc, doc, errors, listeners, diagramVars, hoverVars, scoreVars, lastClicked>>

\* a click on the menu entry the markup places at position item
MenuClick(item) ==
    /\ pc = "ready"
    /\ item \in doc.menu
    /\ SetNav(Dispatch(Nav, listeners.menu[item], ""))
    /\ lastEvent' = Event("menuClick", currentStep, "", item)
    /\ UNCHANGED <<pc, doc, errors, listeners, diagramVars, hoverVars, scoreVars, lastClicked>>

\* a click on the previous control (possible while it is displayed)
PrevClick ==
    /\ pc = "ready"
    /\ doc.prevBtn
    /\ prevDisplay # "none"
    /\ SetNav(Dispatch(Nav, listeners.prev, ""))
    /\ lastEvent' = Event("prevClick", currentStep, "", 0)
    /\ UNCHANGED <<pc, doc, errors, listeners, diagramVars, hoverVars, scoreVars, lastClicked>>

\* a click on the next control (possible while it is displayed)
NextClick ==
    /\ pc = "ready"
    /\ doc.nextBtn
    /\ nextDisplay # "none"
    /\ SetNav(Dispatch(Nav, listeners.next, ""))
    /\ lastEvent' = Event("nextClick", currentStep, "", 0)
    /\ UNCHANGED <<pc, doc, errors, listeners, diagramVars, hoverVars, scoreVars, lastClicked>>

\* a key press anywhere in the document
KeyDown(key) ==
    /\ pc = "ready"
    /\ SetNav(Dispatch(Nav, listeners.keydown, key))
    /\ lastEvent' = Event("keydown", currentStep, key, 0)
    /\ UNCHANGED <<pc, doc, errors, listeners, diagramVars, hoverVars, scoreVars, lastClicked>>

\* the reader scrolls the content area down
Scroll ==
    /\ pc = "ready"
    /\ doc.contentArea
    /\ scrollTop = 0
    /\ scrollTop' = 1
    /\ lastEvent' = Event("scroll", NoValue, "", 0)
    /\ UNCHANGED <<pc, doc, errors, listeners, currentStep, menuActive, panelActive,
                   progressText, prevDisplay, nextDisplay, diagramVars, hoverVars,
                   scoreVars, lastClicked>>

(***************************************************************************)
(* Diagram: input events and timers.                                       *)
(***************************************************************************)
\* the bound on running highlight sequences, for an event that draws
MayDraw(nodeType) ==
    (doc.svg /\ HasData(nodeType)) => Len(anim) < MaxPending

\* a click on a node element
NodeClick(node) ==
    /\ pc = "ready"
    /\ node \in doc.nodes
    /\ listeners.node[node] # <<>> => MayDraw(node)
    /\ SetDiagram(DispatchDiagram(Diagram, listeners.node[node], node, layout))
    /\ lastClicked' = node
    /\ lastEvent' = Event("nodeClick", NoValue, node, 0)
    /\ UNCHANGED <<pc, doc, listeners, navVars, seedTimer, layout, hoverVars, scoreVars>>

\* the viewport is resized: the page is laid out anew, then the listener runs
Resize(lay) ==
    /\ pc = "ready"
    /\ (listeners.resize # <<>> /\ activeNodes # {}) => MayDraw(FirstActive(activeNodes))
    /\ layout' = lay
    /\ SetDiagram(DispatchDiagram(Diagram, listeners.resize, "", lay))
    /\ lastEvent' = Event("resize", NoValue, "", lay)
    /\ UNCHANGED <<pc, doc, listeners, navVars, seedTimer, hoverVars, scoreVars,
                   lastClicked>>

\* the 100 ms timer of initializeStep2Interactions expires
SeedTimer ==
    /\ pc = "ready"
    /\ seedTimer = "pending"
    /\ MayDraw("leadership")
    /\ seedTimer' = "fired"
    /\ SetDiagram(initializeConnections(Diagram, layout))
    /\ lastEvent' = Event("seedTimer", NoValue, "", 0)
    /\ UNCHANGED <<pc, doc, listeners, navVars, layout, hoverVars, scoreVars,
                   lastClicked>>

\* whether sequence a has run the callback cb (it has none for a line it
\* did not draw)
HasRun(a, cb) ==
    \/ cb.i >= a.n
    \/ \E p \in 1..a.fired : Callbacks(a.n)[p] = cb

\* The next timer of the k-th running sequence expires:
\* line.classList.add('highlighted') or line.classList.remove('highlighted').
\* Timers of equal delay run in the order they were set, so the callback
\* runs after the same callback of every older sequence.
HighlightTimer(k) ==
    /\ pc = "ready"
    /\ k \in 1..Len(anim)
    /\ LET a == anim[k]
           cb == Callbacks(a.n)[a.fired + 1]
           line == <<a.id, cb.i>>
       IN /\ \A j \in 1..(k - 1) : HasRun(anim[j], cb)
          /\ highlighted' = IF cb.kind = "add" THEN highlighted \cup {line}
                            ELSE highlighted \ {line}
          /\ anim' = IF a.fired + 1 = 2 * a.n
                     THEN SubSeq(anim, 1, k - 1) \o SubSeq(anim, k + 1, Len(anim))
                     ELSE [anim EXCEPT ![k].fired = @ + 1]
          /\ lastEvent' = Event("highlightTimer", NoValue, cb.kind, a.id)
    /\ UNCHANGED <<pc, doc, errors, listeners, navVars, activeNodes, details,
                   svgLines, seedTimer, layout, hoverVars, scoreVars, lastClicked>>

\* the node elements the pointer is moved over
HoverNodes == {NodeIds[i] : i \in 1..MaxHover} \cap doc.nodes

\* the pointer moves onto a node element
MouseEnter(node) ==
    /\ pc = "ready"
    /\ node \in HoverNodes
    /\ hovered = ""
    /\ hovered' = node
    /\ transform' = DispatchHover(transform, listeners.mouseenter[node], activeNodes, node)
    /\ lastEvent' = Event("mouseenter", NoValue, node, 0)
    /\ UNCHANGED <<pc, doc, errors, listeners, navVars, diagramVars, scoreVars,
                   lastClicked>>

\* the pointer leaves the node element it is over
MouseLeave(node) ==
    /\ pc = "ready"
    /\ hovered = node
    /\ node # ""
    /\ hovered' = ""
    /\ transform' = DispatchHover(transform, listeners.mouseleave[node], activeNodes, node)
    /\ lastEvent' = Event("mouseleave", NoValue, node, 0)
    /\ UNCHANGED <<pc, doc, errors, listeners, navVars, diagramVars, scoreVars,
                   lastClicked>>

(***************************************************************************)
(* Checklists: the reader checks or unchecks a checkbox, or the score      *)
(* function is called through its global name.                             *)
(***************************************************************************)
\* a checkbox of checklist g is checked (check) or unchecked
ChangeCheckbox(g, check) ==
    /\ pc = "ready"
    /\ IF check THEN checkedItems[g] < totalItems[g] ELSE checkedItems[g] > 0
    /\ checkedItems' = [checkedItems EXCEPT ![g] = IF check THEN @ + 1 ELSE @ - 1]
    /\ scoreText' = DispatchChange(scoreText, listeners.change[g], checkedItems', totalItems)
    /\ lastEvent' = Event("change", NoValue, g, 0)
    /\ UNCHANGED <<pc, doc, errors, listeners, navVars, diagramVars, hoverVars,
                   totalItems, lastClicked>>

\* window.updateAssessmentScore() or window.updateMappingAssessmentScore()
ApiUpdateScore(g) ==
    /\ pc = "ready"
    /\ scoreText' = IF g = "assessment"
                    THEN updateAssessmentScore(scoreText, checkedItems, totalItems)
                    ELSE updateMappingAssessmentScore(scoreText, checkedItems, totalItems)
    /\ lastEvent' = Event("updateScore", NoValue, g, 0)
    /\ UNCHANGED <<pc, doc, errors, listeners, navVars, diagramVars, hoverVars,
                   totalItems, checkedItems, lastClicked>>

(***************************************************************************)
(* Specifications.                                                         *)
(***************************************************************************)
Load == DOMContentLoaded1 \/ DOMContentLoaded2

NextNav ==
    \/ Load
    \/ \E v \in ArgValues : ApiShowStep(v)
    \/ ApiNextStep
    \/ ApiPreviousStep
    \/ \E item \in Steps : MenuClick(item)
    \/ PrevClick
    \/ NextClick
    \/ \E key \in Keys : KeyDown(key)
    \/ Scroll

NextDiagram ==
    \/ Load
    \/ \E node \in TableNodes \cup {UnknownNode} : NodeClick(node)
    \/ \E lay \in 0..MaxLayout : Resize(lay)
    \/ SeedTimer
    \/ \E k \in 1..Len(anim) : HighlightTimer(k)

\* pointer movement over the nodes, clicks on them, and the highlight timers
\* of the draws the clicks start
NextHover ==
    \/ Load
    \/ \E node \in TableNodes : MouseEnter(node)
    \/ \E node \in TableNodes : MouseLeave(node)
    \/ \E node \in TableNodes : NodeClick(node)
    \/ \E k \in 1..Len(anim) : HighlightTimer(k)

\* The timers of the diagram interleaved with input to the diagram (clicks
\* on the nodes the pointer visits) and to the step controller (a call of
\* nextStep, the key ArrowLeft).
NextTimers ==
    \/ Load
    \/ ApiNextStep
    \/ \E key \in {"ArrowLeft"} : KeyDown(key)
    \/ \E node \in HoverNodes : NodeClick(node)
    \/ SeedTimer
    \/ \E k \in 1..Len(anim) : HighlightTimer(k)

\* the two checklists
NextScore ==
    \/ Load
    \/ \E g \in Checklists, check \in BOOLEAN : ChangeCheckbox(g, check)
    \/ \E g \in Checklists : ApiUpdateScore(g)

\* The draws and their timers: clicks on the nodes the pointer visits,
\* resizes that keep the layout, the seeded draw and the highlight timers.
NextSettle ==
    \/ Load
    \/ \E node \in HoverNodes : NodeClick(node)
    \/ Resize(layout)
    \/ SeedTimer
    \/ \E k \in 1..Len(anim) : HighlightTimer(k)

Next == NextNav \/ NextDiagram \/ NextHover \/ NextTimers \/ NextScore \/ NextSettle

\* the whole page on a nominal document
Spec == Init /\ [][Next]_vars
\* The step controller alone, and the diagram alone, after the same load.
\* No navigation action writes a diagram variable and no diagram action a
\* navigation variable, so each controller is explored without the
\* interleavings of the other's events.
SpecNav == Init /\ [][NextNav]_vars
SpecDiagram == Init /\ [][NextDiagram]_vars
SpecHover == Init /\ [][NextHover]_vars
SpecTimers == Init /\ [][NextTimers]_vars
\* A highlight timer that has been set expires: the next timer of every
\* running highlight sequence runs once the timers due before it have run.
TimersExpire == \A k \in 1..MaxPending : WF_vars(HighlightTimer(k))
SpecSettle == Init /\ [][NextSettle]_vars /\ TimersExpire
\* the checklists, on pages with checklists of every size
SpecScore == InitScore /\ [][NextScore]_vars
\* the same on documents that lack elements
SpecNavDegraded == InitNavDegraded /\ [][NextNav]_vars
SpecDiagramDegraded == InitDiagramDegraded /\ [][NextDiagram]_vars

(***************************************************************************)
(* Properties of the step controller.                                      *)
(***************************************************************************)
\* the navigation state after a step
NavAfter ==
    [currentStep |-> currentStep', menuActive |-> menuActive',
     panelActive |-> panelActive', progressText |-> progressText',
     prevDisplay |-> prevDisplay', nextDisplay |-> nextDisplay',
     scrollTop |-> scrollTop']

\* twice the value of a number, and the numbers outside the interval [1, 6]
Twice(v) == IF v.k = "half" THEN 2 * v.n + 1 ELSE 2 * v.n
OutsideRange(v) ==
    v.k \in {"int", "half"} /\ (Twice(v) < 2 \/ Twice(v) > 2 * totalSteps)

\* C1: in every reachable state currentStep is an integer between 1 and 6,
\* whatever value showStep has been called with.
StepIndexInRange ==
    IsInteger(currentStep) /\ currentStep.n >= 1 /\ currentStep.n <= 6

\* C2: showStep(n) with a number n outside [1, 6] changes neither
\* currentStep nor the menu highlight, the active panel, the progress label
\* or the visibility of the two controls.
ShowStepRejectsOutside ==
    [][\A v \in ArgValues :
         (OutsideRange(v) /\ ApiShowStep(v)) =>
             UNCHANGED <<currentStep, menuActive, panelActive, progressText,
                         prevDisplay, nextDisplay>>]_vars

\* C2 witness: showStep(7) has been called while step 3 was shown.
RejectedAtStepThree ==
    /\ lastEvent.type = "showStep"
    /\ lastEvent.val = Int_(7)
    /\ currentStep = Int_(3)
    /\ panelActive = {3}

\* C3: after showStep(n) with n one of the steps 1..6, panel n is the one
\* active panel, entry n the one highlighted menu entry, the label reads n,
\* the previous control is hidden iff n = 1 and the next control iff n = 6;
\* the controls are visible iff hasPreviousStep() and hasNextStep().
ShowStepRendersStep ==
    (lastEvent.type = "showStep" /\ IsInteger(lastEvent.val)
        /\ lastEvent.val.n \in 1..6) =>
      LET n == lastEvent.val.n
      IN /\ currentStep = Int_(n)
         /\ panelActive = {n}
         /\ menuActive = {n}
         /\ progressText = Int_(n)
         /\ prevDisplay \in {"none", "flex"}
         /\ nextDisplay \in {"none", "flex"}
         /\ (prevDisplay = "none") <=> (n = 1)
         /\ (nextDisplay = "none") <=> (n = 6)
         /\ (prevDisplay = "flex") <=> hasPreviousStep(Nav)
         /\ (nextDisplay = "flex") <=> hasNextStep(Nav)

\* C3 witness: showStep(6) has been called from a state that showed
\* another step.
LastStepShown ==
    /\ lastEvent.type = "showStep"
    /\ lastEvent.val = Int_(6)
    /\ panelActive = {6}
    /\ nextDisplay = "none"
    /\ scrollTop = 0

\* C4: once load has run, the controller is at step 1 and every menu entry,
\* the previous control, the next control and the document's keydown carry
\* exactly one navigation listener.
WiredExactlyOnce ==
    pc = "ready" =>
      /\ lastEvent.type = "DOMContentLoaded" => currentStep = Int_(1)
      /\ \A item \in doc.menu : Len(listeners.menu[item]) = 1
      /\ Len(listeners.prev) = 1
      /\ Len(listeners.next) = 1
      /\ Len(listeners.keydown) = 1

\* C5: nextStep() moves currentStep from s to s + 1 when s < 6 and changes
\* nothing at s = 6; previousStep() moves it from s to s - 1 when s > 1 and
\* changes nothing at s = 1.
NextPreviousMoveByOne ==
    [][/\ ApiNextStep =>
            /\ JsLt(currentStep, 6) => currentStep' = JsPlus(currentStep, 1)
            /\ JsStrictEq(currentStep, 6) => UNCHANGED navVars
       /\ ApiPreviousStep =>
            /\ JsGt(currentStep, 1) => currentStep' = JsPlus(currentStep, -1)
            /\ JsStrictEq(currentStep, 1) => UNCHANGED navVars]_vars

\* what a key press is claimed to do to the navigation state
KeyEffect(nav, key) ==
    CASE key = "ArrowLeft" -> previousStep(nav)
      [] key = "ArrowRight" -> nextStep(nav)
      [] key = "Home" -> showStep(nav, Int_(1))
      [] key = "End" -> showStep(nav, Int_(6))
      [] \E d \in 1..6 : key = DigitKeys[d + 1] ->
           showStep(nav, Int_(CHOOSE d \in 1..6 : key = DigitKeys[d + 1]))
      [] OTHER -> nav

\* C6: one key press does to the step state what previousStep() (ArrowLeft),
\* nextStep() (ArrowRight), showStep(1) (Home), showStep(6) (End) or
\* showStep(k) (digit k in 1..6) does, and nothing for any other key.
KeyPressIsOneTransition ==
    [][\A key \in Keys : KeyDown(key) => NavAfter = KeyEffect(Nav, key)]_vars

\* C6 witness: ArrowRight has been pressed at step 2 and step 3 is shown.
ArrowRightPressed ==
    /\ lastEvent.type = "keydown"
    /\ lastEvent.key = "ArrowRight"
    /\ lastEvent.val = Int_(2)
    /\ currentStep = Int_(3)
    /\ panelActive = {3}

\* C7: with any of the elements missing, load and every later operation
\* run without an error, and every update whose target exists is applied:
\* after load the keydown listener and the listeners of the controls that
\* exist are in place and the views that exist show step 1.
MissingTargetsAreSkipped ==
    /\ errors = {}
    /\ pc = "ready" =>
         /\ Len(listeners.keydown) >= 1
         /\ doc.prevBtn => Len(listeners.prev) >= 1
         /\ doc.nextBtn => Len(listeners.next) >= 1
         /\ \A item \in doc.menu : Len(listeners.menu[item]) >= 1
         /\ seedTimer # "unset"
         /\ lastEvent.type = "DOMContentLoaded" =>
              /\ currentStep = Int_(1)
              /\ doc.label => progressText = Int_(1)
              /\ doc.prevBtn => prevDisplay = "none"
              /\ doc.nextBtn => nextDisplay = "flex"

\* C17: showStep(getCurrentStep()) is idempotent: called in any reachable
\* state, it leaves currentStep as it is, and a further call (hence any
\* number of further calls) leaves currentStep and every view exactly as
\* the first call left them.
ShowCurrentStepIsIdempotent ==
    [][ApiShowStep(getCurrentStep(Nav)) =>
         /\ currentStep' = currentStep
         /\ showStep(NavAfter, getCurrentStep(NavAfter)) = NavAfter]_vars

\* C17 witness: showStep(getCurrentStep()) has been called at step 4.
CurrentStepShownAgain ==
    /\ lastEvent.type = "showStep"
    /\ lastEvent.key = "current"
    /\ currentStep = Int_(4)
    /\ panelActive = {4}
    /\ scrollTop = 0

\* C18: once load has run, one click on the next control does to the step
\* state what one call of nextStep() does (s to s + 1 below 6, nothing at
\* 6) and one click on the previous control what one call of
\* previousStep() does; no click moves the step index by more than one.
ClickIsOneStep ==
    [][/\ NextClick => NavAfter = nextStep(Nav)
       /\ PrevClick => NavAfter = previousStep(Nav)]_vars

(***************************************************************************)
(* Properties of the diagram controller.                                   *)
(***************************************************************************)
\* the connections of 'leadership' as the specification lists them
LeadershipTargets == <<"culture", "processes", "people", "results">>
LeadershipStrengths == <<"strong", "strong", "medium", "weak">>

\* C8: right after a click on a node of the table the detail panel lists
\* that node's connections in table order and the drawing surface holds one
\* line per connection, tagged with its strength, all of this one draw and
\* none of an earlier one; 4 lines for 'leadership'.
SelectionRendersConnections ==
    (lastEvent.type = "nodeClick" /\ lastEvent.key \in TableNodes) =>
      LET id == lastEvent.key
          conns == connectionData(id).connections
      IN /\ details.title = connectionData(id).title
         /\ Len(details.items) = Len(conns)
         /\ \A i \in 1..Len(conns) :
              /\ details.items[i].target = Capitalize(conns[i].target)
              /\ details.items[i].strength = conns[i].strength
         /\ Len(svgLines) = Len(conns)
         /\ \A i \in 1..Len(svgLines) :
              /\ svgLines[i].index = i - 1
              /\ svgLines[i].draw = svgLines[1].draw
              /\ svgLines[i].from = Center(id, layout)
              /\ svgLines[i].to = Center(conns[i].target, layout)
              /\ svgLines[i].strength = conns[i].strength
              /\ svgLines[i].marker = conns[i].strength
         /\ id = "leadership" =>
              /\ Len(svgLines) = 4
              /\ \A i \in 1..4 :
                   /\ svgLines[i].to.at = LeadershipTargets[i]
                   /\ svgLines[i].strength = LeadershipStrengths[i]

\* C8 witness: 'leadership' has been clicked while the highlight sequence
\* of an earlier draw was still running.
LeadershipSelectedOverEarlierDraw ==
    /\ lastEvent.type = "nodeClick"
    /\ lastEvent.key = "leadership"
    /\ activeNodes = {"leadership"}
    /\ Len(svgLines) = 4
    /\ Len(anim) = 2

\* C9: a click on a node whose identifier the table does not have changes
\* neither the active node, the detail panel nor the lines drawn, and
\* raises no error.
UnknownSelectionIsNoOp ==
    [][NodeClick(UnknownNode) =>
         UNCHANGED <<activeNodes, details, svgLines, errors>>]_vars

\* C10: no line on the drawing surface belongs to a connection whose target
\* node element is missing, and a draw that ran without an error drew the
\* line of every connection whose target exists.
MissingTargetIsSkipped ==
    /\ \A i \in 1..Len(svgLines) : svgLines[i].to.at \in doc.nodes
    /\ (lastEvent.type = "nodeClick" /\ lastEvent.key \in TableNodes
          /\ doc.svg /\ errors = {}) =>
         \A c \in Range(connectionData(lastEvent.key).connections) :
            c.target \in doc.nodes =>
               \E i \in 1..Len(svgLines) : svgLines[i].to.at = c.target

\* the lines on the surface are the four lines of 'leadership', in table order
LeadershipLinesDrawn(lines) ==
    /\ Len(lines) = 4
    /\ \A i \in 1..4 :
         /\ lines[i].from.at = "leadership"
         /\ lines[i].to.at = LeadershipTargets[i]
         /\ lines[i].strength = LeadershipStrengths[i]

\* C11 as stated: from the end of load until the first click no node is
\* active, the detail panel is empty and the lines of 'leadership' are on
\* the drawing surface.
SeededWhenLoadCompletes ==
    (pc = "ready" /\ lastClicked = "") =>
      /\ activeNodes = {}
      /\ details = NoDetails
      /\ LeadershipLinesDrawn(svgLines)

\* C11 amended: from the end of load until the first click no node is
\* active and the detail panel is empty; the drawing surface is empty until
\* the 100 ms timer set during load expires and holds the lines of
\* 'leadership' from then on.  That timer runs the seeded draw once, the
\* draw is never run again, and it changes neither the active node nor the
\* detail panel.
SeededOnceByTimer ==
    /\ [](pc = "ready" /\ lastClicked = "" =>
            /\ activeNodes = {}
            /\ details = NoDetails
            /\ seedTimer = "pending" => svgLines = <<>>
            /\ seedTimer = "fired" => LeadershipLinesDrawn(svgLines))
    /\ [][/\ seedTimer = "fired" => seedTimer' = "fired"
          /\ SeedTimer =>
               /\ seedTimer = "pending"
               /\ UNCHANGED <<activeNodes, details>>
               /\ LeadershipLinesDrawn(svgLines')
               /\ \A i \in 1..4 : svgLines'[i].from = Center("leadership", layout)]_vars

\* C11 witness: the seed timer has just expired, before any click.
SeedDrawnBeforeFirstClick ==
    /\ lastEvent.type = "seedTimer"
    /\ lastClicked = ""
    /\ seedTimer = "fired"
    /\ Len(svgLines) = 4
    /\ activeNodes = {}

\* C12: in every reachable state of every interleaving of mouseenter,
\* mouseleave and click, a node carries the hover scale cue only if the
\* pointer is over it and it is not active; no node keeps the cue after the
\* pointer has left it.
HoverCueIsTransient ==
    \A node \in transform : hovered = node /\ node \notin activeNodes

\* C13: a resize while a node is active removes the lines and draws the
\* lines of exactly that node anew, from positions measured under the new
\* layout; a resize while no node is active changes neither the lines, the
\* active node nor the detail panel.
ResizeRedrawsActiveNode ==
    [][\A lay \in 0..MaxLayout :
         Resize(lay) =>
           /\ UNCHANGED <<activeNodes, details>>
           /\ IF activeNodes # {}
              THEN LET id == CHOOSE n \in activeNodes : TRUE
                       conns == connectionData(id).connections
                   IN /\ activeNodes = {id}
                      /\ Len(svgLines') = Len(conns)
                      /\ \A i \in 1..Len(conns) :
                           /\ svgLines'[i].index = i - 1
                           /\ svgLines'[i].from = Center(id, lay)
                           /\ svgLines'[i].to = Center(conns[i].target, lay)
                           /\ svgLines'[i].strength = conns[i].strength
                      /\ \A k \in 1..Len(anim) : anim[k].id # svgLines'[1].draw
                      /\ anim' = Append(anim, [id |-> svgLines'[1].draw,
                                               n |-> Len(conns), fired |-> 0])
              ELSE UNCHANGED <<svgLines, anim, highlighted>>]_vars

\* C13 witness: the page has been resized to layout 1 while 'culture' was
\* active and the highlight sequence of its click was still running.
ResizedWithCultureActive ==
    /\ lastEvent.type = "resize"
    /\ lastEvent.idx = 1
    /\ activeNodes = {"culture"}
    /\ Len(anim) = 2
    /\ Len(svgLines) = 4
    /\ svgLines[1].from = Center("culture", 1)

\* the events that are a click, a key press or a call of an exported function
InputEvents ==
    {"showStep", "nextStep", "previousStep", "menuClick", "prevClick", "nextClick",
     "keydown", "nodeClick"}

\* C14: in every interleaving of timer callbacks with input events, no
\* timer callback (the seeded draw, a highlight or its removal) writes
\* currentStep or the active node: they change only in a step that handles
\* a click, a key press or a call of an exported function.
TimersWriteNoSelection ==
    [][/\ (SeedTimer \/ \E k \in 1..Len(anim) : HighlightTimer(k))
            => UNCHANGED <<currentStep, activeNodes>>
       /\ (currentStep' # currentStep \/ activeNodes' # activeNodes)
            => lastEvent'.type \in InputEvents]_vars

\* C14 witness: a highlight timer has expired while step 3 was shown and
\* 'culture' was active, its draw started before the seed timer expired.
TimerFiredAtStepThree ==
    /\ lastEvent.type = "highlightTimer"
    /\ currentStep = Int_(3)
    /\ activeNodes = {"culture"}
    /\ seedTimer = "pending"

\* the lines on the surface are those of node id, in table order
LinesOf(id, lines) ==
    LET conns == connectionData(id).connections
    IN /\ Len(lines) = Len(conns)
       /\ \A i \in 1..Len(conns) :
            /\ lines[i].from.at = id
            /\ lines[i].to.at = conns[i].target
            /\ lines[i].strength = conns[i].strength

\* C19: in every reachable state in which a node of the table is active,
\* whatever the interleaving of node clicks, resizes and the delayed seeded
\* draw of 'leadership' (a click before the seed timer expires included),
\* the lines on the drawing surface are exactly the lines of the active
\* node.
LinesAreThoseOfActiveNode ==
    \A id \in TableNodes : activeNodes = {id} => LinesOf(id, svgLines)

\* C20: at most one node is active at any time: the active set is empty
\* as long as no node has been clicked and holds exactly the node clicked
\* last from then on.
OneActiveNode ==
    /\ Cardinality(activeNodes) <= 1
    /\ activeNodes = IF lastClicked = "" THEN {} ELSE {lastClicked}

\* C20 witness: 'results' has been clicked after another node, whose
\* highlight sequence is still running.
ResultsClickedSecond ==
    /\ lastEvent.type = "nodeClick"
    /\ lastClicked = "results"
    /\ activeNodes = {"results"}
    /\ Len(anim) = 2
    /\ svgLines[1].from.at = "results"

\* the lines of the running sequences whose highlight has been added and
\* not yet removed
BetweenAddAndRemove ==
    {<<anim[k].id, i>> : k \in 1..Len(anim), i \in 0..(MaxLines - 1)} \cap
    {line \in (1..MaxPending) \X (0..(MaxLines - 1)) :
       \E k \in 1..Len(anim) :
         /\ anim[k].id = line[1]
         /\ line[2] < anim[k].n
         /\ HasRun(anim[k], [kind |-> "add", i |-> line[2]])
         /\ ~HasRun(anim[k], [kind |-> "remove", i |-> line[2]])}

\* C21: every line drawn is eventually settled.  The callbacks of a draw
\* are, for each of its lines, one add and one remove of the highlight, the
\* add first; the highlighted lines are at any time exactly those between
\* their add and their remove, on the surface or not; every highlight
\* sequence eventually ends with none of its lines highlighted, also when
\* another draw is started while it runs; and when no timer is pending, no
\* line is highlighted.
EveryLineSettles ==
    /\ [](/\ highlighted = BetweenAddAndRemove
          /\ anim = <<>> => highlighted = {}
          /\ \A k \in 1..Len(anim) :
               LET cbs == Callbacks(anim[k].n)
               IN /\ Len(cbs) = 2 * anim[k].n
                  /\ \A i \in 0..(anim[k].n - 1) :
                       \E p, q \in 1..Len(cbs) :
                         /\ p < q
                         /\ cbs[p] = [kind |-> "add", i |-> i]
                         /\ cbs[q] = [kind |-> "remove", i |-> i]
                         /\ \A r \in 1..Len(cbs) : cbs[r].i = i => r \in {p, q})
    /\ \A id \in 1..MaxPending :
         (\E k \in 1..Len(anim) : anim[k].id = id)
           ~> (/\ \A k \in 1..Len(anim) : anim[k].id # id
               /\ \A line \in highlighted : line[1] # id)

\* C21 witness: every timer has expired and nothing is highlighted, the
\* lines on the surface being those of a draw started while the sequence
\* of an earlier draw was still running.
SettledAfterOverlappingDraws ==
    /\ lastEvent.type = "highlightTimer"
    /\ lastEvent.key = "remove"
    /\ anim = <<>>
    /\ seedTimer = "fired"
    /\ highlighted = {}
    /\ Len(svgLines) > 0
    /\ svgLines[1].draw = 2

(***************************************************************************)
(* Properties of the checklist scoring.                                    *)
(***************************************************************************)
\* 100 * checked / total rounded to the nearest integer (a half upwards)
Rounded(checked, total) == (200 * checked + total) \div (2 * total)

\* the tier of a percentage
TierOf(p) ==
    IF p = 100 THEN "Perfect!"
    ELSE IF p >= 80 THEN "Great work!"
    ELSE IF p >= 60 THEN "Good progress!"
    ELSE IF p >= 40 THEN "Getting there!"
    ELSE ""

\* C15: for every checklist with total > 0 checkboxes and after any
\* sequence of checkbox changes, the score message is that of the current
\* number of checked boxes: it shows round(100 * checked / total), in the
\* tier 100, >= 80, >= 60, >= 40 or below.
ScoreShowsRoundedPercentage ==
    \A g \in Checklists :
      totalItems[g] > 0 =>
        /\ (lastEvent.type = "change" /\ lastEvent.key = g) => scoreText[g] # NoMessage
        /\ scoreText[g] # NoMessage =>
             LET p == Rounded(checkedItems[g], totalItems[g])
             IN /\ scoreText[g].percentage = Int_(p)
                /\ scoreText[g].tier = TierOf(p)

\* C16: with no checkbox in a checklist, scoring it raises no error and
\* leaves the text of its score element as it was (nothing is divided and
\* no message is written).
ZeroTotalLeavesScore ==
    [][\A g \in Checklists :
         (totalItems[g] = 0 /\ ApiUpdateScore(g)) => UNCHANGED <<scoreText, errors>>]_vars

\* C16 witness: updateAssessmentScore() has been called on a page without
\* assessment checkboxes, whose other checklist shows a score.
ScoredWithoutCheckboxes ==
    /\ lastEvent.type = "updateScore"
    /\ lastEvent.key = "assessment"
    /\ totalItems["assessment"] = 0
    /\ scoreText["assessment"] = NoMessage
    /\ scoreText["mapping"] # NoMessage

====
